---- MODULE Spec2Model ----
(***************************************************************************)
(* A model of hemtjanst/klimat: the philips package (session identifiers,  *)
(* the encrypted message envelope, the Device client) and its callers.     *)
(*                                                                         *)
(* Bytes are the integers 0..255.  Text ([]byte of a Go string) is a       *)
(* sequence of ASCII codes, so "0000000A" is <<48,48,48,48,48,48,48,65>>.  *)
(*                                                                         *)
(* Three library primitives are replaced by small stand-ins, because only  *)
(* their shape matters to the program: md5.Sum and sha256.Sum256 are       *)
(* position-weighted checksums of the right output length, and the AES     *)
(* block transform is a keyed, invertible byte substitution with a         *)
(* rotation of the 16 positions.  Everything around them (hex text, key    *)
(* stretching, CBC chaining, padding, framing) follows the source.         *)
(***************************************************************************)
EXTENDS Integers, Sequences, FiniteSets, TLC

----------------------------------------------------------------------------
(* Bounds of the model *)

\* longest plaintext handed to the codec
MaxLen == 33
\* number of Set calls made on one Device
MaxSets == 3
\* longest text handed to ParseID
MaxIDLen == 10

----------------------------------------------------------------------------
(* Program constants *)

\* aes.BlockSize, the "16" of message.go
BlockSize == 16
\* message.go: checksumLen
checksumLen == 32
\* the four raw bytes of the session prefix, the "4" of message.go:97
prefixLen == 4
\* SessionID is a uint32; the model holds it as <<high, low>>, two halves
\* of 16 bits, since the model checker's integers stop short of 2^32
TwoTo16 == 65536
\* message.go: magicWord = "JiangPan"
magicWord == <<74, 105, 97, 110, 103, 80, 97, 110>>

----------------------------------------------------------------------------
(* Bytes and hex text *)

RECURSIVE XorBits(_, _, _)
XorBits(a, b, n) ==
    IF n = 0 THEN 0
    ELSE (((a % 2) + (b % 2)) % 2) + (2 * XorBits(a \div 2, b \div 2, n - 1))

\* a ^ b on the sixteen 4-bit values, worked out once
XorNibble == [a \in 0..15 |-> [b \in 0..15 |-> XorBits(a, b, 4)]]

\* a ^ b on bytes
Xor(a, b) ==
    (16 * XorNibble[a \div 16][b \div 16]) + XorNibble[a % 16][b % 16]

\* A sequence built element by element is joined to the empty sequence to
\* have the model checker compute it once, as a tuple
XorBlock(x, y) == [j \in 1..BlockSize |-> Xor(x[j], y[j])] \o <<>>

Take(s, n) == IF Len(s) <= n THEN s ELSE SubSeq(s, 1, n)

RepeatByte(b, n) == [i \in 1..n |-> b] \o <<>>

\* one digit of strings.ToUpper(hex.EncodeToString(..)) and of %X
UpperHexChar(v) == IF v < 10 THEN 48 + v ELSE 55 + v

\* the value of a hex digit, either case; -1 for any other byte
HexVal(c) ==
    IF c >= 48 /\ c <= 57 THEN c - 48
    ELSE IF c >= 65 /\ c <= 70 THEN c - 55
    ELSE IF c >= 97 /\ c <= 102 THEN c - 87
    ELSE -1

IsHexText(s) == \A i \in 1..Len(s) : HexVal(s[i]) >= 0

\* strings.ToUpper(hex.EncodeToString(b))
HexEncodeUpper(b) ==
    [i \in 1..(2 * Len(b)) |->
        IF (i % 2) = 1 THEN UpperHexChar(b[(i + 1) \div 2] \div 16)
        ELSE UpperHexChar(b[i \div 2] % 16)] \o <<>>

\* hex.DecodeString: an error for a byte that is no hex digit and for an
\* odd length, the decoded bytes otherwise
HexDecodeString(s) ==
    IF ~IsHexText(s) \/ (Len(s) % 2) = 1
    THEN [err |-> TRUE, data |-> <<>>]
    ELSE [err |-> FALSE,
          data |-> [i \in 1..(Len(s) \div 2) |->
                       (16 * HexVal(s[(2 * i) - 1])) + HexVal(s[2 * i])]
                   \o <<>>]

----------------------------------------------------------------------------
(* SessionID *)

\* the uint32 whose value is n, for 0 <= n < 2^31
U32(n) == <<n \div TwoTo16, n % TwoTo16>>

\* the largest uint32
MaxU32 == <<TwoTo16 - 1, TwoTo16 - 1>>

RECURSIVE HexValue32(_, _)
\* the number written by the first n digits of s, in 32 bits
HexValue32(s, n) ==
    IF n = 0 THEN <<0, 0>>
    ELSE LET p == HexValue32(s, n - 1)
         IN  <<((p[1] * 16) + (p[2] \div 4096)) % TwoTo16,
               ((p[2] * 16) + HexVal(s[n])) % TwoTo16>>

\* strconv.ParseUint(s, 16, 32): (0, error) for the empty string and for a
\* string holding a byte that is no hex digit; at most 8 digits fit 32 bits
ParseUint16(s) ==
    IF Len(s) = 0 \/ ~IsHexText(s)
    THEN [err |-> TRUE, val |-> <<0, 0>>]
    ELSE [err |-> FALSE, val |-> HexValue32(s, Len(s))]

ParseIDOrMax(data) ==
    IF ParseUint16(Take(data, 8)).err THEN MaxU32
    ELSE ParseUint16(Take(data, 8)).val
ParseIDWhole(data) == ParseUint16(data).val
\* ParseID: the first 8 bytes, parsed as hex, the error dropped
ParseID(data) == ParseUint16(Take(data, 8)).val

\* four upper-case hex digits of a 16-bit half
Hex4(h) == [i \in 1..4 |-> UpperHexChar((h \div (16 ^ (4 - i))) % 16)] \o <<>>

HexLowerCase(sid) ==
    [i \in 1..8 |->
        LET v == (sid[((i - 1) \div 4) + 1] \div (16 ^ (3 - ((i - 1) % 4)))) % 16
        IN  IF v < 10 THEN 48 + v ELSE 87 + v] \o <<>>
\* fmt.Sprintf("%08X", id)
Hex(sid) == Hex4(sid[1]) \o Hex4(sid[2])

IncrementWithoutWrap(sid) ==
    IF sid[2] + 1 < TwoTo16 THEN <<sid[1], sid[2] + 1>>
    ELSE <<sid[1] + 1, 0>>
\* Session.Increment: the counter plus one, in 32 bits
Increment(sid) ==
    IF sid[2] + 1 < TwoTo16 THEN <<sid[1], sid[2] + 1>>
    ELSE <<(sid[1] + 1) % TwoTo16, 0>>

----------------------------------------------------------------------------
(* Key derivation and the cipher *)

RECURSIVE WeightedSum(_, _, _)
\* the sum of i * s[i] over lo..hi, modulo a prime; halved at each step to
\* keep the recursion shallow
WeightedSum(s, lo, hi) ==
    IF lo > hi THEN 0
    ELSE IF lo = hi THEN (lo * s[lo]) % 65521
    ELSE LET mid == (lo + hi) \div 2
         IN  (WeightedSum(s, lo, mid) + WeightedSum(s, mid + 1, hi)) % 65521

\* stand-in for md5.Sum: 16 bytes that depend on every input byte
md5Sum(s) ==
    LET c == WeightedSum(s, 1, Len(s))
    IN  [j \in 1..16 |-> ((c * j) + (31 * j)) % 256] \o <<>>

\* stand-in for sha256.Sum256: 32 bytes that depend on every input byte
sha256Sum(s) ==
    LET c == WeightedSum(s, 1, Len(s)) + Len(s)
    IN  [j \in 1..checksumLen |-> ((c * j) + (7 * j)) % 256] \o <<>>

\* keyIV: the digest of magicWord + id.Hex(), each half hex-encoded to 16
\* bytes of upper-case text
keyIV(sid) ==
    LET keyAndIV == md5Sum(magicWord \o Hex(sid))
    IN  [key |-> HexEncodeUpper(SubSeq(keyAndIV, 1, 8)),
         iv  |-> HexEncodeUpper(SubSeq(keyAndIV, 9, 16))]

\* stand-in for the AES block transform under key k, and its inverse
BlockEnc(k, b) ==
    [j \in 1..BlockSize |-> (b[(j % BlockSize) + 1] + k[j]) % 256] \o <<>>

BlockDec(k, c) ==
    [j \in 1..BlockSize |->
        LET src == IF j = 1 THEN BlockSize ELSE j - 1
        IN  ((c[src] - k[src]) + 256) % 256] \o <<>>

NthBlock(data, i) == SubSeq(data, (BlockSize * (i - 1)) + 1, BlockSize * i)

RECURSIVE CBCEncrypt(_, _, _, _)
\* cipher.NewCBCEncrypter(block, iv).CryptBlocks over the first n blocks:
\* each block is xor-ed with the ciphertext block before it (the iv for the
\* first) and then transformed
CBCEncrypt(k, iv, data, n) ==
    IF n = 0 THEN <<>>
    ELSE LET head == CBCEncrypt(k, iv, data, n - 1)
             prev == IF n = 1 THEN iv ELSE NthBlock(head, n - 1)
         IN  head \o BlockEnc(k, XorBlock(NthBlock(data, n), prev))

RECURSIVE CBCDecrypt(_, _, _, _)
\* cipher.NewCBCDecrypter(block, iv).CryptBlocks over the first n blocks:
\* each block is transformed back and then xor-ed with the ciphertext block
\* before it (the iv for the first)
CBCDecrypt(k, iv, data, n) ==
    IF n = 0 THEN <<>>
    ELSE CBCDecrypt(k, iv, data, n - 1)
         \o XorBlock(BlockDec(k, NthBlock(data, n)),
                     IF n = 1 THEN iv ELSE NthBlock(data, n - 1))

\* What a call comes back with: a value and no error ("ok"), an error and
\* no value ("err"), or a run-time panic that unwinds the caller ("panic")
Ok(v) == [status |-> "ok", out |-> v]
Err == [status |-> "err", out |-> <<>>]
Panic == [status |-> "panic", out |-> <<>>]
NotCalled == [status |-> "none", out |-> <<>>]

\* CryptBlocks panics ("input not full blocks") unless the input is a whole
\* number of blocks
FullBlocks(data) == (Len(data) % BlockSize) = 0

\* SessionID.Decrypt: aes.NewCipher cannot fail on the 16-byte key, and
\* CryptBlocks is called on whatever length it is given
Decrypt(sid, data) ==
    IF ~FullBlocks(data) THEN Panic
    ELSE LET kiv == keyIV(sid)
         IN  Ok(CBCDecrypt(kiv.key, kiv.iv, data, Len(data) \div BlockSize))

\* SessionID.Encrypt
Encrypt(sid, data) ==
    IF ~FullBlocks(data) THEN Panic
    ELSE LET kiv == keyIV(sid)
         IN  Ok(CBCEncrypt(kiv.key, kiv.iv, data, Len(data) \div BlockSize))

----------------------------------------------------------------------------
(* The message envelope *)

PaddingLenPKCS7(n) == BlockSize - (n % BlockSize)
\* padding := (16 - (len(msg) % 16)) % 16
PaddingLen(n) == (BlockSize - (n % BlockSize)) % BlockSize

PadWithZeros(msg) == msg \o RepeatByte(0, PaddingLen(Len(msg)))
\* the loop appending byte(padding) padding times
Pad(msg) == msg \o RepeatByte(PaddingLen(Len(msg)), PaddingLen(Len(msg)))

IsPadByteBelow16(b) == b >= 1 /\ b < BlockSize
\* the strip loop's test, negated: not (b < 1 || b > 16)
IsPadByte(b) == b >= 1 /\ b <= BlockSize

\* drops as many bytes as the last byte says, once
StripPaddingByCount(out) ==
    IF Len(out) = 0 THEN out
    ELSE IF ~IsPadByte(out[Len(out)]) THEN out
    ELSE SubSeq(out, 1, Len(out) - out[Len(out)])

RECURSIVE StripPadding(_)
\* for len(out) > 0 { if the last byte is no padding byte: break; drop it }
StripPadding(out) ==
    IF Len(out) = 0 THEN out
    ELSE IF ~IsPadByte(out[Len(out)]) THEN out
    ELSE StripPadding(SubSeq(out, 1, Len(out) - 1))

\* sess.Hex() + upper hex of the ciphertext + upper hex of the checksum of
\* that text
Envelope(sid, cipher) ==
    LET outMsg == Hex(sid) \o HexEncodeUpper(cipher)
    IN  outMsg \o HexEncodeUpper(sha256Sum(outMsg))

EncodeMessageAcceptsEmpty(sid, msg) == Ok(Envelope(sid, Encrypt(sid, Pad(msg)).out))
\* EncodeMessage(sess, msg)
EncodeMessage(sid, msg) ==
    IF Len(msg) = 0 THEN Err
    ELSE Ok(Envelope(sid, Encrypt(sid, Pad(msg)).out))

CipherOfWithChecksum(data) == SubSeq(data, prefixLen + 1, Len(data))
\* the ciphertext of a frame: data[4:] and then data[:len(data)-checksumLen]
CipherOf(data) == SubSeq(data, prefixLen + 1, Len(data) - checksumLen)

TooFewForChecksum(data) == Len(data) < checksumLen
\* the length test of DecodeMessage: len(data) < 4+checksumLen
TooFew(data) == Len(data) < prefixLen + checksumLen

\* DecodeMessage(msg) from its second line on, sess given
DecodeMessageUnder(sess, msg) ==
    LET dec  == HexDecodeString(msg)
    IN  IF dec.err THEN Err
        ELSE IF TooFew(dec.data) THEN Err
        ELSE LET plain == Decrypt(sess, CipherOf(dec.data))
             IN  IF plain.status = "panic" THEN Panic
                 ELSE Ok(StripPadding(plain.out))

\* DecodeMessage(msg): sess := ParseID(msg), and the rest
DecodeMessage(msg) == DecodeMessageUnder(ParseID(msg), msg)

----------------------------------------------------------------------------
(* State *)

VARIABLES
    csess,      \* codec: the SessionID a frame is made under
    cplain,     \* codec: the plaintext
    cframe,     \* codec: the wire frame at hand
    ckind,      \* codec: how cframe was made
    cenc,       \* codec: what EncodeMessage returned
    cres,       \* codec: what DecodeMessage returned for cframe
    cprev,      \* codec: what DecodeMessage returned for the frame before
    sess0,      \* New: the session NewSession() made, <<>> before
    syncReq,    \* New: the payload posted to /sys/dev/sync
    syncRsp,    \* New: the payload of the response to it
    syncOutcome,\* New: "none", "dialerr", "posterr" or "response"
    newRet,     \* New: "none" before the call, then "err" or "device"
    id,         \* Device.id, the session counter; <<>> while there is none
    base,       \* the value of id when New returned the Device
    spc,        \* Set: where each caller stands in its call
    sret,       \* Set: what each caller's last call returned
    sresp,      \* Set: the response each caller's call got
    built,      \* Set: the control frames built so far, in order
    nCalls,     \* Set: calls started
    nReturned,  \* Set: calls that have returned
    nIncrements,\* Set: calls that reached d.id.Increment()
    pdata,      \* ParseID: the bytes it is given
    pid,        \* ParseID: what it returned, <<>> before the call
    iret,       \* Info: what the last call returned
    obs,        \* Status: what the last call returned
    alive,      \* the process runs: no panic has unwound a goroutine
    opush,      \* the observe callback: the last push and what it did
    oprev,      \* the observe callback: the push before the last
    sent,       \* the requests the last call made on each endpoint
    iaql,       \* AirQuality: the value reported by the appliance
    level,      \* AirQuality: what ToHemtjanst returned, "" before the call
    idLock,     \* the publisher's idLock: its holder, 0 when free
    exec,       \* the publish command: what Exec returned, "none" before
    ctxDone,    \* the publish command: the context is cancelled
    cancels,    \* the publish command: calls of obs.Cancel()
    phex,       \* SessionID: Hex of the parsed id, <<>> before the call
    pnext       \* SessionID: the parsed id after Increment, <<>> before

codecVars == <<csess, cplain, cframe, ckind, cenc, cres, cprev>>

newVars == <<sess0, syncReq, syncRsp, syncOutcome, newRet, base>>

setVars == <<spc, sret, sresp, built, nCalls, nReturned, nIncrements>>

deviceVars == <<sess0, syncReq, syncRsp, syncOutcome, newRet, base, id,
                spc, sret, sresp, built, nCalls, nReturned, nIncrements>>

parseVars == <<pdata, pid, phex, pnext>>

obsVars == <<iret, obs, alive, opush, oprev>>

vars == <<csess, cplain, cframe, ckind, cenc, cres, cprev,
          sess0, syncReq, syncRsp, syncOutcome, newRet, base, id,
          spc, sret, sresp, built, nCalls, nReturned, nIncrements,
          pdata, pid, iret, obs, alive, opush, oprev,
          sent, iaql, level, idLock, exec, ctxDone, cancels, phex, pnext>>

extraVars == <<iaql, level, idLock, exec, ctxDone, cancels>>

\* the goroutines that may call Set on the one Device
Callers == {1, 2}

\* no session: the nil d.id of a Device that New has not filled in
NoSession == <<>>

\* no response: the nil resp of a post that returned an error
NoResponse == [json |-> FALSE, strings |-> FALSE, status |-> "none"]

DeviceIdle ==
    /\ sess0 = NoSession
    /\ syncReq = <<>>
    /\ syncRsp = <<>>
    /\ syncOutcome = "none"
    /\ newRet = "none"
    /\ id = NoSession
    /\ base = NoSession
    /\ spc = [c \in Callers |-> "idle"]
    /\ sret = [c \in Callers |-> "none"]
    /\ sresp = [c \in Callers |-> NoResponse]
    /\ built = <<>>
    /\ nCalls = 0
    /\ nReturned = 0
    /\ nIncrements = 0

\* no push: the callback has not run
NoPush == [kind |-> "none", confirmable |-> FALSE, session |-> <<>>,
           trace |-> <<>>, resp |-> NotCalled]

ParseIdle ==
    /\ pdata = <<>>
    /\ pid = NoSession
    /\ phex = <<>>
    /\ pnext = NoSession

ObserveIdle ==
    /\ iret = "none"
    /\ obs = "none"
    /\ alive = TRUE
    /\ opush = NoPush
    /\ oprev = NoPush

\* no request has been made
NoRequests == [sync |-> 0, info |-> 0, control |-> 0, status |-> 0]

\* ToHemtjanst has not been called
AirQualityIdle ==
    /\ iaql = 0
    /\ level = ""

\* the publish command has not started and nobody holds idLock
CommandIdle ==
    /\ idLock = 0
    /\ exec = "none"
    /\ ctxDone = FALSE
    /\ cancels = 0

ExtraIdle ==
    /\ sent = NoRequests
    /\ AirQualityIdle
    /\ CommandIdle

CodecIdle ==
    /\ csess = <<0, 0>>
    /\ cplain = <<>>
    /\ cframe = <<>>
    /\ ckind = "none"
    /\ cenc = NotCalled
    /\ cres = NotCalled
    /\ cprev = NotCalled

----------------------------------------------------------------------------
(* The codec, driven on its own: EncodeMessage and DecodeMessage are pure, *)
(* so the inputs are drawn in Init and the actions apply the functions.    *)

\* a session counter: small, large, and the two ends of the 32-bit range
SessionIDs == {U32(0), U32(11), U32(305419896), MaxU32}

\* a plaintext ends in '}', in NUL, in a byte of 1..16 or just above, or in
\* 0xFF
LastBytes == {125, 0, 1, 15, 16, 17, 255}

\* the plaintext of n bytes ending in last, '{' before it
Plaintext(n, last) ==
    [i \in 1..n |-> IF i = n THEN last ELSE 123] \o <<>>

Plaintexts == {Plaintext(n, l) : n \in 0..MaxLen, l \in LastBytes}

InitCodec ==
    /\ csess \in SessionIDs
    /\ cplain \in Plaintexts
    /\ cframe = <<>>
    /\ ckind = "none"
    /\ cenc = NotCalled
    /\ cres = NotCalled
    /\ cprev = NotCalled
    /\ DeviceIdle
    /\ ParseIdle
    /\ ObserveIdle
    /\ ExtraIdle

\* the client encodes cplain
CallEncodeMessage ==
    /\ ckind = "none"
    /\ cenc' = EncodeMessage(csess, cplain)
    /\ cframe' = cenc'.out
    /\ ckind' = IF cenc'.status = "ok" THEN "encoded" ELSE "refused"
    /\ UNCHANGED <<csess, cplain, cres, cprev>>
    /\ UNCHANGED deviceVars
    /\ UNCHANGED parseVars
    /\ UNCHANGED sent
    /\ UNCHANGED extraVars
    /\ UNCHANGED obsVars

\* A frame as the appliance makes it for a plaintext of whole blocks: no
\* padding, or the extra block of sixteen 0x10 bytes its firmware sometimes
\* adds
DeviceFrame(sid, plain, spurious) ==
    Envelope(sid, Encrypt(sid, IF spurious
                               THEN plain \o RepeatByte(BlockSize, BlockSize)
                               ELSE plain).out)

\* the appliance pushes cplain unpadded
PushAligned ==
    /\ ckind = "none"
    /\ FullBlocks(cplain)
    /\ cframe' = DeviceFrame(csess, cplain, FALSE)
    /\ ckind' = "aligned"
    /\ UNCHANGED <<csess, cplain, cenc, cres, cprev>>
    /\ UNCHANGED deviceVars
    /\ UNCHANGED parseVars
    /\ UNCHANGED sent
    /\ UNCHANGED extraVars
    /\ UNCHANGED obsVars

\* the appliance pushes cplain with the spurious block, first or after the
\* unpadded frame of the same plaintext has been decoded
PushSpurious ==
    /\ \/ ckind = "none"
       \/ ckind = "aligned" /\ cres.status # "none"
    /\ FullBlocks(cplain)
    /\ cframe' = DeviceFrame(csess, cplain, TRUE)
    /\ ckind' = "spurious"
    /\ cprev' = cres
    /\ cres' = NotCalled
    /\ UNCHANGED <<csess, cplain, cenc>>
    /\ UNCHANGED deviceVars
    /\ UNCHANGED parseVars
    /\ UNCHANGED sent
    /\ UNCHANGED extraVars
    /\ UNCHANGED obsVars

\* a frame whose ciphertext is cut or stretched by extra bytes, so that it
\* is no whole number of blocks
RaggedFrame(sid, plain, extra) ==
    LET whole == Encrypt(sid, Pad(plain)).out
    IN  Envelope(sid, IF extra < 0
                      THEN SubSeq(whole, 1, Len(whole) + extra)
                      ELSE whole \o RepeatByte(170, extra))

PushRagged(extra) ==
    /\ ckind = "none"
    /\ Len(cplain) > 0
    /\ cframe' = RaggedFrame(csess, cplain, extra)
    /\ ckind' = "ragged"
    /\ UNCHANGED <<csess, cplain, cenc, cres, cprev>>
    /\ UNCHANGED deviceVars
    /\ UNCHANGED parseVars
    /\ UNCHANGED sent
    /\ UNCHANGED extraVars
    /\ UNCHANGED obsVars

\* the frame with the text at position pos replaced by 'G'
WithNonHex(frame, pos) == [frame EXCEPT ![pos] = 71]

PushNonHex(pos) ==
    /\ ckind = "none"
    /\ Len(cplain) > 0
    /\ LET frame == EncodeMessage(csess, cplain).out
       IN  /\ pos <= Len(frame)
           /\ cframe' = WithNonHex(frame, pos)
    /\ ckind' = "nonhex"
    /\ UNCHANGED <<csess, cplain, cenc, cres, cprev>>
    /\ UNCHANGED deviceVars
    /\ UNCHANGED parseVars
    /\ UNCHANGED sent
    /\ UNCHANGED extraVars
    /\ UNCHANGED obsVars

\* the first n characters of a frame
PushTruncated(n) ==
    /\ ckind = "none"
    /\ Len(cplain) > 0
    /\ cframe' = Take(EncodeMessage(csess, cplain).out, n)
    /\ ckind' = IF (n % 2) = 1 THEN "odd" ELSE "short"
    /\ UNCHANGED <<csess, cplain, cenc, cres, cprev>>
    /\ UNCHANGED deviceVars
    /\ UNCHANGED parseVars
    /\ UNCHANGED sent
    /\ UNCHANGED extraVars
    /\ UNCHANGED obsVars

\* the 32 raw bytes that may stand in the place of a frame's checksum
Suffixes == {RepeatByte(0, checksumLen), RepeatByte(255, checksumLen)}

\* the frame with its last 32 raw bytes, 64 characters of hex, replaced
WithSuffix(frame, suffix) ==
    SubSeq(frame, 1, Len(frame) - (2 * checksumLen)) \o HexEncodeUpper(suffix)

\* the frame that was just decoded arrives again, the 32 raw bytes that its
\* last 64 characters spell replaced by others
PushResuffixed(suffix) ==
    /\ ckind \in {"encoded", "aligned", "spurious", "ragged", "nonhex",
                  "odd", "short"}
    /\ cres.status # "none"
    /\ Len(cframe) >= 2 * checksumLen
    /\ IsHexText(SubSeq(cframe, (Len(cframe) - (2 * checksumLen)) + 1,
                        Len(cframe)))
    /\ cframe' = WithSuffix(cframe, suffix)
    /\ ckind' = "resuffixed"
    /\ cprev' = cres
    /\ cres' = NotCalled
    /\ UNCHANGED <<csess, cplain, cenc>>
    /\ UNCHANGED deviceVars
    /\ UNCHANGED parseVars
    /\ UNCHANGED sent
    /\ UNCHANGED extraVars
    /\ UNCHANGED obsVars

\* the client decodes the frame at hand
CallDecodeMessage ==
    /\ ckind \in {"encoded", "aligned", "spurious", "ragged", "nonhex",
                  "odd", "short", "resuffixed"}
    /\ cres.status = "none"
    /\ cres' = DecodeMessage(cframe)
    /\ UNCHANGED <<csess, cplain, cframe, ckind, cenc, cprev>>
    /\ UNCHANGED deviceVars
    /\ UNCHANGED parseVars
    /\ UNCHANGED sent
    /\ UNCHANGED extraVars
    /\ UNCHANGED obsVars

RaggedBy == {-1, 1, 15}
NonHexAt == {1, 8, 9, 40, 41, 72}
TruncatedTo == {0, 7, 8, 9, 70, 71}

NextCodec ==
    \/ CallEncodeMessage
    \/ PushAligned
    \/ PushSpurious
    \/ \E extra \in RaggedBy : PushRagged(extra)
    \/ \E pos \in NonHexAt : PushNonHex(pos)
    \/ \E n \in TruncatedTo : PushTruncated(n)
    \/ \E suffix \in Suffixes : PushResuffixed(suffix)
    \/ CallDecodeMessage

SpecCodec == InitCodec /\ [][NextCodec]_vars

----------------------------------------------------------------------------
(* ParseID, driven on its own *)

\* the bytes before the last one: '0', '7', 'F', 'f'
FillBytes == {48, 55, 70, 102}

\* the last byte: '0', '9', 'A', 'F', 'a', 'f', and 'G', 'z', ' ', '-', NUL,
\* which are no hex digits
EndBytes == {48, 57, 65, 70, 97, 102, 71, 122, 32, 45, 0}

\* the text of n bytes that has bad at position pos (if pos is in 1..n),
\* last at the end and fill elsewhere
IDText(n, fill, last, pos, bad) ==
    [i \in 1..n |-> IF i = pos THEN bad
                    ELSE IF i = n THEN last
                    ELSE fill] \o <<>>

\* texts of 0..MaxIDLen bytes: hex digits throughout, or with a byte that
\* is no hex digit at the end, at the front, or at position 9
IDTexts ==
    {IDText(n, f, l, pos, 71) :
        n \in 0..MaxIDLen, f \in FillBytes, l \in EndBytes, pos \in {0, 1, 9}}

InitParse ==
    /\ pdata \in IDTexts
    /\ pid = NoSession
    /\ phex = <<>>
    /\ pnext = NoSession
    /\ DeviceIdle
    /\ CodecIdle
    /\ ObserveIdle
    /\ ExtraIdle

CallParseID ==
    /\ pid = NoSession
    /\ pid' = ParseID(pdata)
    /\ UNCHANGED <<pdata, phex, pnext>>
    /\ UNCHANGED deviceVars
    /\ UNCHANGED codecVars
    /\ UNCHANGED obsVars
    /\ UNCHANGED sent
    /\ UNCHANGED extraVars

\* id.Hex() of the parsed id
CallHex ==
    /\ pid # NoSession
    /\ phex = <<>>
    /\ phex' = Hex(pid)
    /\ UNCHANGED <<pdata, pid, pnext>>
    /\ UNCHANGED deviceVars
    /\ UNCHANGED codecVars
    /\ UNCHANGED obsVars
    /\ UNCHANGED sent
    /\ UNCHANGED extraVars

\* ParseID(rsp.Payload()) + 1, the local session after a handshake
CallIncrement ==
    /\ pid # NoSession
    /\ pnext = NoSession
    /\ pnext' = Increment(pid)
    /\ UNCHANGED <<pdata, pid, phex>>
    /\ UNCHANGED deviceVars
    /\ UNCHANGED codecVars
    /\ UNCHANGED obsVars
    /\ UNCHANGED sent
    /\ UNCHANGED extraVars

NextParse ==
    \/ CallParseID
    \/ CallHex
    \/ CallIncrement

SpecParse == InitParse /\ [][NextParse]_vars

----------------------------------------------------------------------------
(* The Device client: New, with the sync handshake, and Set *)

RequestsSentRetrying(ok) == IF ok THEN 1 ELSE 2
\* the requests one call makes on its endpoint: the one PostWithContext,
\* GetWithContext or ObserveWithContext, in no loop, whatever it returns
RequestsSent(ok) == 1

\* what NewSession() may draw
NewSessions == {U32(7), U32(305419896)}

\* what the appliance may answer on /sys/dev/sync: "0000000A", "FFFFFFFF",
\* "0000FFFF", "1F", "0000000a", nothing, "zz", "0000000G" and "0000000AXY"
SyncResponses ==
    { <<48, 48, 48, 48, 48, 48, 48, 65>>,
      <<70, 70, 70, 70, 70, 70, 70, 70>>,
      <<48, 48, 48, 48, 70, 70, 70, 70>>,
      <<49, 70>>,
      <<48, 48, 48, 48, 48, 48, 48, 97>>,
      <<>>,
      <<122, 122>>,
      <<48, 48, 48, 48, 48, 48, 48, 71>>,
      <<48, 48, 48, 48, 48, 48, 48, 65, 88, 89>> }

SessionFromSyncNoIncrement(payload) == ParseID(payload)
\* id := ParseID(rsp.Payload()); id.Increment(); d.id = id
SessionFromSync(payload) == Increment(ParseID(payload))

\* New(ctx, address): dial, post the hex of a new session to /sys/dev/sync,
\* take the session from the response
New(dialOK, sess, postOK, payload) ==
    /\ newRet = "none"
    /\ IF ~dialOK
       THEN /\ syncOutcome' = "dialerr"
            /\ newRet' = "err"
            /\ UNCHANGED <<sess0, syncReq, syncRsp, id, base, sent>>
       ELSE /\ sess0' = sess
            /\ syncReq' = Hex(sess)
            /\ sent' = [sent EXCEPT !.sync = RequestsSent(postOK)]
            /\ IF ~postOK
               THEN /\ syncOutcome' = "posterr"
                    /\ newRet' = "err"
                    /\ UNCHANGED <<syncRsp, id, base>>
               ELSE /\ syncOutcome' = "response"
                    /\ syncRsp' = payload
                    /\ id' = SessionFromSync(payload)
                    /\ base' = id'
                    /\ newRet' = "device"
    /\ UNCHANGED setVars
    /\ UNCHANGED codecVars
    /\ UNCHANGED parseVars
    /\ UNCHANGED extraVars
    /\ UNCHANGED obsVars

\* the values of the "pwr" field a caller may ask for: '0' and '1'
PowerValues == {48, 49}

\* json.Marshal(Status{State: State{Desired: msg}}) for a Desired that sets
\* the power: {"state":{"desired":{"pwr":"1"}}}
MarshalDesired(pwr) ==
    <<123, 34, 115, 116, 97, 116, 101, 34, 58, 123, 34, 100, 101, 115, 105,
      114, 101, 100, 34, 58, 123, 34, 112, 119, 114, 34, 58, 34>>
    \o <<pwr>> \o <<34, 125, 125, 125>>

\* What the appliance may answer on /sys/dev/control, by what
\* json.Unmarshal into a map[string]string makes of it: text that is no JSON
\* object (json is FALSE), an object with a member that is no string
\* (strings is FALSE; Unmarshal fills the map and returns an error), and an
\* object of strings; each without "status" or with it
Acknowledgements ==
    { [json |-> FALSE, strings |-> FALSE, status |-> "absent"],
      [json |-> TRUE, strings |-> FALSE, status |-> "success"],
      [json |-> TRUE, strings |-> TRUE, status |-> "absent"],
      [json |-> TRUE, strings |-> TRUE, status |-> "failed"],
      [json |-> TRUE, strings |-> TRUE, status |-> "success"] }

\* json.Unmarshal(resp.Payload(), &state) returns no error
UnmarshalsToStrings(ack) == ack.json /\ ack.strings

AckResultIgnoringStatus(ack) == IF ~UnmarshalsToStrings(ack) THEN "err" ELSE "nil"
\* the tail of Set: json.Unmarshal fails, or state["status"] != "success"
AckResult(ack) ==
    IF ~UnmarshalsToStrings(ack) THEN "err"
    ELSE IF ack.status # "success" THEN "err"
    ELSE "nil"

\* the record kept of a control frame: who built it and its leading 8
\* characters, the session it is encoded under
FrameRecord(c, frame) == [caller |-> c, prefix |-> Take(frame, 8)]

SetAdvancingBeforePost(c, pwr, postOK, ack) ==
    /\ newRet = "device"
    /\ nCalls < MaxSets
    /\ \A o \in Callers : spc[o] = "idle"
    /\ nCalls' = nCalls + 1
    /\ nReturned' = nReturned + 1
    /\ LET newMsg == EncodeMessage(id, MarshalDesired(pwr))
       IN  IF newMsg.status # "ok"
           THEN /\ sret' = [sret EXCEPT ![c] = "err"]
                /\ sresp' = [sresp EXCEPT ![c] = NoResponse]
                /\ UNCHANGED <<id, built, nIncrements, sent>>
           ELSE /\ built' = Append(built, FrameRecord(c, newMsg.out))
                /\ sent' = [sent EXCEPT !.control = RequestsSent(postOK)]
                /\ id' = Increment(id)
                /\ nIncrements' = nIncrements + 1
                /\ IF ~postOK
                   THEN /\ sret' = [sret EXCEPT ![c] = "err"]
                        /\ sresp' = [sresp EXCEPT ![c] = NoResponse]
                   ELSE /\ sresp' = [sresp EXCEPT ![c] = ack]
                        /\ sret' = [sret EXCEPT ![c] = AckResult(ack)]
    /\ UNCHANGED spc
    /\ UNCHANGED newVars
    /\ UNCHANGED codecVars
    /\ UNCHANGED parseVars
    /\ UNCHANGED extraVars
    /\ UNCHANGED obsVars
\* Set(msg), run from start to end by the only caller of the Device
Set(c, pwr, postOK, ack) ==
    /\ newRet = "device"
    /\ nCalls < MaxSets
    /\ \A o \in Callers : spc[o] = "idle"
    /\ nCalls' = nCalls + 1
    /\ nReturned' = nReturned + 1
    /\ LET newMsg == EncodeMessage(id, MarshalDesired(pwr))
       IN  IF newMsg.status # "ok"
           THEN /\ sret' = [sret EXCEPT ![c] = "err"]
                /\ sresp' = [sresp EXCEPT ![c] = NoResponse]
                /\ UNCHANGED <<id, built, nIncrements, sent>>
           ELSE /\ built' = Append(built, FrameRecord(c, newMsg.out))
                /\ sent' = [sent EXCEPT !.control = RequestsSent(postOK)]
                /\ IF ~postOK
                   THEN /\ sret' = [sret EXCEPT ![c] = "err"]
                        /\ sresp' = [sresp EXCEPT ![c] = NoResponse]
                        /\ UNCHANGED <<id, nIncrements>>
                   ELSE /\ id' = Increment(id)
                        /\ nIncrements' = nIncrements + 1
                        /\ sresp' = [sresp EXCEPT ![c] = ack]
                        /\ sret' = [sret EXCEPT ![c] = AckResult(ack)]
    /\ UNCHANGED spc
    /\ UNCHANGED newVars
    /\ UNCHANGED codecVars
    /\ UNCHANGED parseVars
    /\ UNCHANGED extraVars
    /\ UNCHANGED obsVars

InitDevice ==
    /\ DeviceIdle
    /\ CodecIdle
    /\ ParseIdle
    /\ ObserveIdle
    /\ ExtraIdle

Next ==
    \/ \E dialOK \in BOOLEAN, sess \in NewSessions, postOK \in BOOLEAN,
          payload \in SyncResponses :
           New(dialOK, sess, postOK, payload)
    \/ \E pwr \in PowerValues, postOK \in BOOLEAN, ack \in Acknowledgements :
           Set(1, pwr, postOK, ack)

Init == InitDevice

Spec == Init /\ [][Next]_vars

----------------------------------------------------------------------------
(* Set called from several goroutines at once: each call is a sequence of *)
(* steps, and the steps of different calls interleave                     *)

\* json.Marshal and EncodeMessage(d.id, data): d.id is read here
SetEncode(c, pwr) ==
    /\ newRet = "device"
    /\ nCalls < MaxSets
    /\ spc[c] = "idle"
    /\ nCalls' = nCalls + 1
    /\ LET newMsg == EncodeMessage(id, MarshalDesired(pwr))
       IN  IF newMsg.status # "ok"
           THEN /\ sret' = [sret EXCEPT ![c] = "err"]
                /\ nReturned' = nReturned + 1
                /\ UNCHANGED <<built, spc>>
           ELSE /\ built' = Append(built, FrameRecord(c, newMsg.out))
                /\ spc' = [spc EXCEPT ![c] = "encoded"]
                /\ UNCHANGED <<sret, nReturned>>
    /\ sresp' = [sresp EXCEPT ![c] = NoResponse]
    /\ UNCHANGED <<id, nIncrements>>
    /\ UNCHANGED newVars
    /\ UNCHANGED codecVars
    /\ UNCHANGED parseVars
    /\ UNCHANGED sent
    /\ UNCHANGED extraVars
    /\ UNCHANGED obsVars

\* d.cc.PostWithContext(ctx, "/sys/dev/control", ..): an error returns
SetPost(c, postOK, ack) ==
    /\ spc[c] = "encoded"
    /\ IF ~postOK
       THEN /\ spc' = [spc EXCEPT ![c] = "idle"]
            /\ sret' = [sret EXCEPT ![c] = "err"]
            /\ nReturned' = nReturned + 1
            /\ UNCHANGED sresp
       ELSE /\ spc' = [spc EXCEPT ![c] = "posted"]
            /\ sresp' = [sresp EXCEPT ![c] = ack]
            /\ UNCHANGED <<sret, nReturned>>
    /\ UNCHANGED <<id, built, nCalls, nIncrements>>
    /\ UNCHANGED newVars
    /\ UNCHANGED codecVars
    /\ UNCHANGED parseVars
    /\ sent' = [sent EXCEPT !.control = RequestsSent(postOK)]
    /\ UNCHANGED extraVars
    /\ UNCHANGED obsVars

\* d.id.Increment()
SetIncrement(c) ==
    /\ spc[c] = "posted"
    /\ id' = Increment(id)
    /\ nIncrements' = nIncrements + 1
    /\ spc' = [spc EXCEPT ![c] = "incremented"]
    /\ UNCHANGED <<sret, sresp, built, nCalls, nReturned>>
    /\ UNCHANGED newVars
    /\ UNCHANGED codecVars
    /\ UNCHANGED parseVars
    /\ UNCHANGED sent
    /\ UNCHANGED extraVars
    /\ UNCHANGED obsVars

\* the acknowledgement is inspected and Set returns
SetReturn(c) ==
    /\ spc[c] = "incremented"
    /\ sret' = [sret EXCEPT ![c] = AckResult(sresp[c])]
    /\ nReturned' = nReturned + 1
    /\ spc' = [spc EXCEPT ![c] = "idle"]
    /\ UNCHANGED <<id, sresp, built, nCalls, nIncrements>>
    /\ UNCHANGED newVars
    /\ UNCHANGED codecVars
    /\ UNCHANGED parseVars
    /\ UNCHANGED sent
    /\ UNCHANGED extraVars
    /\ UNCHANGED obsVars

NextConcurrent ==
    \/ \E dialOK \in BOOLEAN, sess \in NewSessions, postOK \in BOOLEAN,
          payload \in SyncResponses :
           New(dialOK, sess, postOK, payload)
    \/ \E c \in Callers, pwr \in PowerValues : SetEncode(c, pwr)
    \/ \E c \in Callers, postOK \in BOOLEAN, ack \in Acknowledgements :
           SetPost(c, postOK, ack)
    \/ \E c \in Callers : SetIncrement(c)
    \/ \E c \in Callers : SetReturn(c)

SpecConcurrent == Init /\ [][NextConcurrent]_vars

----------------------------------------------------------------------------
(* The readers: Info, Status and the callback of the observation *)

InfoAdvancing(getOK, jsonOK) ==
    /\ newRet = "device"
    /\ iret' = IF getOK /\ jsonOK THEN "info" ELSE "err"
    /\ id' = Increment(id)
    /\ UNCHANGED <<obs, alive, opush, oprev>>
    /\ UNCHANGED newVars
    /\ UNCHANGED setVars
    /\ UNCHANGED codecVars
    /\ UNCHANGED parseVars
    /\ sent' = [sent EXCEPT !.info = RequestsSent(getOK)]
    /\ UNCHANGED extraVars
\* Device.Info: GET /sys/dev/info and json.Unmarshal of the payload
Info(getOK, jsonOK) ==
    /\ newRet = "device"
    /\ iret' = IF getOK /\ jsonOK THEN "info" ELSE "err"
    /\ UNCHANGED id
    /\ UNCHANGED <<obs, alive, opush, oprev>>
    /\ UNCHANGED newVars
    /\ UNCHANGED setVars
    /\ UNCHANGED codecVars
    /\ UNCHANGED parseVars
    /\ sent' = [sent EXCEPT !.info = RequestsSent(getOK)]
    /\ UNCHANGED extraVars

\* Device.Status: ObserveWithContext on /sys/dev/status with the callback;
\* nothing of the Device is looked at but its connection
Status(obsOK) ==
    /\ newRet = "device"
    /\ obs # "observing"
    /\ obs' = IF obsOK THEN "observing" ELSE "err"
    /\ UNCHANGED <<iret, alive, opush, oprev>>
    /\ UNCHANGED deviceVars
    /\ UNCHANGED codecVars
    /\ UNCHANGED parseVars
    /\ sent' = [sent EXCEPT !.status = RequestsSent(obsOK)]
    /\ UNCHANGED extraVars

\* a status report as the appliance sends it:
\* {"state":{"reported":{"pwr":"1"}}}
StatusText ==
    <<123, 34, 115, 116, 97, 116, 101, 34, 58, 123, 34, 114, 101, 112, 111,
      114, 116, 101, 100, 34, 58, 123, 34, 112, 119, 114, 34, 58, 34, 49,
      34, 125, 125, 125>>

\* the same cut short, which is no JSON: {"state":{"reported":{"pwr":"1"
BrokenStatusText ==
    <<123, 34, 115, 116, 97, 116, 101, 34, 58, 123, 34, 114, 101, 112, 111,
      114, 116, 101, 100, 34, 58, 123, 34, 112, 119, 114, 34, 58, 34, 49,
      34>>

RECURSIVE BraceDepth(_, _)
\* the nesting depth of braces after the first n bytes of text, -1 from
\* where a closing brace has no opening one
BraceDepth(text, n) ==
    IF n = 0 THEN 0
    ELSE LET d == BraceDepth(text, n - 1)
         IN  IF d < 0 THEN -1
             ELSE IF text[n] = 123 THEN d + 1
             ELSE IF text[n] = 125 THEN d - 1
             ELSE d

\* stand-in for json.Unmarshal(resp, &data) returning no error: the text
\* is an object whose braces pair up
UnmarshalStatus(text) ==
    /\ Len(text) > 0
    /\ text[1] = 123
    /\ BraceDepth(text, Len(text)) = 0

\* what a pushed frame may be: a status report, or one that is spoilt by a
\* byte that is no hex digit, by being cut short, by a ciphertext that is
\* no whole number of blocks, or by a plaintext that is no JSON
PushKinds == {"valid", "nonhex", "short", "ragged", "badjson"}

\* the same, in an order
PushKindList == <<"valid", "nonhex", "short", "ragged", "badjson">>

\* the session the appliance encodes its pushes under, "0000000B"
PushSession == U32(11)

PushedFrame(kind, sess) ==
    CASE kind = "valid" -> EncodeMessage(sess, StatusText).out
      [] kind = "nonhex" -> WithNonHex(EncodeMessage(sess, StatusText).out, 9)
      [] kind = "short" -> Take(EncodeMessage(sess, StatusText).out, 70)
      [] kind = "ragged" -> RaggedFrame(sess, StatusText, 1)
      [] kind = "badjson" -> EncodeMessage(sess, BrokenStatusText).out

\* the callback, first part: if req.Msg.IsConfirmable() the acknowledgement
\* is written, and a failure to write it is logged
HandleAck(confirmable, writeOK) ==
    IF ~confirmable THEN <<>>
    ELSE IF writeOK THEN <<"WriteMsg">>
    ELSE <<"WriteMsg", "log">>

CallbackDecodeUnderLocal(localid, payload) == IF localid = <<>> THEN Err ELSE DecodeMessageUnder(localid, payload)
\* the callback's philips.DecodeMessage(req.Msg.Payload()); the session of
\* the Device is not among its arguments
CallbackDecode(localid, payload) == DecodeMessage(payload)

\* the values the session of the Device has while frames are pushed: none,
\* and those from "0000000B" on
ObserverSessions ==
    <<NoSession>> \o ([k \in 1..(MaxSets + 1) |-> U32(10 + k)] \o <<>>)

\* what the callback's DecodeMessage comes back with, worked out once for
\* every frame that may be pushed and every session of the Device
CallbackResults ==
    [n \in 1..(Len(PushKindList) * Len(ObserverSessions)) |->
        LET kind  == PushKindList[((n - 1) % Len(PushKindList)) + 1]
            local == ObserverSessions[((n - 1) \div Len(PushKindList)) + 1]
        IN  [kind |-> kind,
             local |-> local,
             resp |-> CallbackDecode(local, PushedFrame(kind, PushSession))]]
    \o <<>>

\* the entry of CallbackResults for a frame and a session of the Device
CallbackResult(kind, local) ==
    LET n == CHOOSE n \in 1..Len(CallbackResults) :
                 /\ CallbackResults[n].kind = kind
                 /\ CallbackResults[n].local = local
    IN  CallbackResults[n].resp

\* the callback, second part, resp being what DecodeMessage came back with:
\* an error is logged and the callback returns, a panic unwinds it, a
\* plaintext goes to json.Unmarshal, whose error is logged, and what it
\* decodes is passed on
HandleDecode(resp) ==
    IF resp.status = "panic" THEN <<"DecodeMessage", "panic">>
    ELSE IF resp.status = "err" THEN <<"DecodeMessage", "log">>
    ELSE IF ~UnmarshalStatus(resp.out)
         THEN <<"DecodeMessage", "Unmarshal", "log">>
    ELSE <<"DecodeMessage", "Unmarshal", "deliver">>

handleObserveDecodeFirst(confirmable, writeOK, resp) == HandleDecode(resp) \o HandleAck(confirmable, writeOK)
\* the callback: what it does, in the order it does it
handleObserve(confirmable, writeOK, resp) ==
    HandleAck(confirmable, writeOK) \o HandleDecode(resp)

\* the transport runs the callback on a pushed frame; a panic in it is not
\* recovered and ends the process
ObservePush(kind, confirmable, writeOK) ==
    /\ obs = "observing"
    /\ ~confirmable => writeOK
    /\ LET resp == CallbackResult(kind, id)
       IN  /\ opush' = [kind |-> kind,
                        confirmable |-> confirmable,
                        session |-> id,
                        trace |-> handleObserve(confirmable, writeOK, resp),
                        resp |-> resp]
           /\ alive' = (resp.status # "panic")
    /\ oprev' = opush
    /\ UNCHANGED <<iret, obs>>
    /\ UNCHANGED deviceVars
    /\ UNCHANGED codecVars
    /\ UNCHANGED parseVars
    /\ UNCHANGED sent
    /\ UNCHANGED extraVars

\* the handshake answer and the acknowledgement met while observing:
\* "0000000A" and {"status":"success"}
ObserveSyncResponses == {<<48, 48, 48, 48, 48, 48, 48, 65>>}

ObserveAcknowledgements ==
    {[json |-> TRUE, strings |-> TRUE, status |-> "success"]}

NextObserve ==
    \/ /\ alive
       /\ \E dialOK \in BOOLEAN, postOK \in BOOLEAN,
             payload \in ObserveSyncResponses :
              New(dialOK, U32(7), postOK, payload)
    \/ /\ alive
       /\ \E getOK \in BOOLEAN, jsonOK \in BOOLEAN : Info(getOK, jsonOK)
    \/ /\ alive
       /\ \E obsOK \in BOOLEAN : Status(obsOK)
    \/ /\ alive
       /\ \E postOK \in BOOLEAN, ack \in ObserveAcknowledgements :
              Set(1, 49, postOK, ack)
    \/ /\ alive
       /\ \E kind \in PushKinds, confirmable \in BOOLEAN,
             writeOK \in BOOLEAN :
              ObservePush(kind, confirmable, writeOK)

SpecObserve == Init /\ [][NextObserve]_vars

----------------------------------------------------------------------------
(* The Device of device.go:13-95, which New only connects and on which     *)
(* Session makes the handshake: New, Info, Session and Status are called   *)
(* in whatever order the caller likes                                      *)

\* New of device.go:21-40: dial, and return the Device
NewConnected(dialOK) ==
    /\ newRet = "none"
    /\ IF dialOK
       THEN /\ newRet' = "device"
            /\ UNCHANGED syncOutcome
       ELSE /\ newRet' = "err"
            /\ syncOutcome' = "dialerr"
    /\ UNCHANGED <<sess0, syncReq, syncRsp, id, base>>
    /\ UNCHANGED setVars
    /\ UNCHANGED codecVars
    /\ UNCHANGED parseVars
    /\ UNCHANGED sent
    /\ UNCHANGED extraVars
    /\ UNCHANGED obsVars

\* Device.Session of device.go:62-75: post the hex of a new session to
\* /sys/dev/sync and return ParseID(rsp.Payload()) + 1 to the caller, who
\* keeps it; the Device holds no session
Session(sess, postOK, payload) ==
    /\ newRet = "device"
    /\ sess0' = sess
    /\ syncReq' = Hex(sess)
    /\ IF postOK
       THEN /\ syncOutcome' = "response"
            /\ syncRsp' = payload
       ELSE /\ syncOutcome' = "posterr"
            /\ UNCHANGED syncRsp
    /\ UNCHANGED <<newRet, id, base>>
    /\ UNCHANGED setVars
    /\ UNCHANGED codecVars
    /\ UNCHANGED parseVars
    /\ sent' = [sent EXCEPT !.sync = RequestsSent(postOK)]
    /\ UNCHANGED extraVars
    /\ UNCHANGED obsVars

NextConnected ==
    \/ /\ alive
       /\ \E dialOK \in BOOLEAN : NewConnected(dialOK)
    \/ /\ alive
       /\ \E sess \in NewSessions, postOK \in BOOLEAN,
             payload \in SyncResponses :
              Session(sess, postOK, payload)
    \/ /\ alive
       /\ \E getOK \in BOOLEAN, jsonOK \in BOOLEAN : Info(getOK, jsonOK)
    \/ /\ alive
       /\ \E obsOK \in BOOLEAN : Status(obsOK)
    \/ /\ alive
       /\ \E kind \in PushKinds, confirmable \in BOOLEAN,
             writeOK \in BOOLEAN :
              ObservePush(kind, confirmable, writeOK)

SpecConnected == Init /\ [][NextConnected]_vars

----------------------------------------------------------------------------
(* Properties of the codec, checked under SpecCodec *)

\* the raw ciphertext carried by the frame at hand
FrameCipher == CipherOf(HexDecodeString(cframe).data)

\* the last byte of the plaintext lies outside 1..16
EndsOutsidePadRange ==
    /\ Len(cplain) > 0
    /\ cplain[Len(cplain)] \notin 1..16

Decoded == cres.status # "none"

\* C6, as claimed: every plaintext of 1..MaxLen bytes, whatever its last
\* byte, comes back from DecodeMessage(EncodeMessage(session, plaintext))
\* unchanged and without error.
C6_RoundTripAnyPlaintext ==
    (ckind = "encoded" /\ Decoded) => cres = Ok(cplain)

\* C6, amended: every plaintext of 1..MaxLen bytes whose last byte is not
\* in 1..16 comes back from DecodeMessage(EncodeMessage(session, plaintext))
\* unchanged and without error, for every session.
C6_RoundTrip ==
    (ckind = "encoded" /\ Decoded /\ EndsOutsidePadRange) => cres = Ok(cplain)

C6_Witness ==
    /\ ckind = "encoded"
    /\ Len(cplain) = BlockSize + 1
    /\ EndsOutsidePadRange
    /\ cres = Ok(cplain)

\* C7, as claimed: for every plaintext p of whole blocks, the unpadded frame
\* and the frame with the spurious block of sixteen 0x10 bytes decode to the
\* same result, and that result is p.
C7_SpuriousBlockAnyPlaintext ==
    (ckind = "spurious" /\ Decoded /\ cprev.status # "none")
        => (cres = cprev /\ cres = Ok(cplain))

\* C7, amended: for every plaintext p of whole blocks, the unpadded frame
\* and the frame with the spurious block of sixteen 0x10 bytes decode
\* without error to the same result; that result is p when p is empty or
\* its last byte is not in 1..16.
C7_SpuriousBlock ==
    (ckind = "spurious" /\ Decoded /\ cprev.status # "none")
        => /\ cres = cprev
           /\ cres.status = "ok"
           /\ (cplain = <<>> \/ EndsOutsidePadRange) => cres.out = cplain

C7_Witness ==
    /\ ckind = "spurious"
    /\ Len(cplain) = BlockSize
    /\ EndsOutsidePadRange
    /\ cprev = Ok(cplain)
    /\ cres = Ok(cplain)

\* C8: for a plaintext of n >= 1 bytes EncodeMessage encrypts the plaintext
\* followed by pad = (16 - n mod 16) mod 16 bytes of value pad: nothing is
\* added when n is a multiple of 16, and what is encrypted is always a
\* whole number of 16-byte blocks.
C8_PaddingOnEncode ==
    (ckind = "encoded") =>
        LET n   == Len(cplain)
            pad == (16 - (n % 16)) % 16
        IN  /\ Len(FrameCipher) = n + pad
            /\ (Len(FrameCipher) % 16) = 0
            /\ ((n % 16) = 0 => Len(FrameCipher) = n)
            /\ Decrypt(csess, FrameCipher).out
                   = cplain \o [i \in 1..pad |-> pad]

C8_Witness ==
    /\ ckind = "encoded"
    /\ Len(cplain) = 2 * BlockSize
    /\ Len(FrameCipher) = 2 * BlockSize
    /\ Decrypt(csess, FrameCipher).out = cplain

\* C9: DecodeMessage returns an error and no plaintext for a frame that is
\* not hex text, has an odd number of hex characters, or decodes to fewer
\* than 4 + 32 raw bytes; a frame of exactly 36 raw bytes is accepted and
\* gives the empty plaintext.
C9_MalformedFrameIsError ==
    Decoded =>
        /\ (\E i \in 1..Len(cframe) : HexVal(cframe[i]) < 0) => cres = Err
        /\ (Len(cframe) % 2) = 1 => cres = Err
        /\ Len(cframe) < 2 * (4 + 32) => cres = Err
        /\ (ckind = "aligned" /\ Len(cframe) = 2 * (4 + 32))
               => cres = Ok(<<>>)

C9_Witness ==
    /\ ckind = "short"
    /\ Len(cframe) = (2 * (4 + 32)) - 2
    /\ cres = Err

\* C10: a frame whose ciphertext is not a whole number of 16-byte blocks is
\* rejected by DecodeMessage with an error; it never makes DecodeMessage
\* panic.
C10_RaggedCipherIsError ==
    (ckind = "ragged" /\ Decoded) => cres = Err

\* C11: EncodeMessage returns an error and no frame for the plaintext of
\* length 0, under every session, and a frame and no error for every
\* plaintext of 1..MaxLen bytes.
C11_EmptyPlaintextRejected ==
    cenc.status # "none" =>
        /\ Len(cplain) = 0 => (cenc = Err /\ cframe = <<>>)
        /\ Len(cplain) > 0 => (cenc.status = "ok" /\ Len(cenc.out) > 0)

C11_Witness ==
    /\ cplain = <<>>
    /\ ckind = "refused"
    /\ cenc = Err

\* C12: a frame and the same frame with other content in its last 32 raw
\* bytes (64 hex characters) give the same DecodeMessage result, be it a
\* plaintext or a failure: the checksum is not verified.
C12_SuffixNotVerified ==
    (ckind = "resuffixed" /\ Decoded) => cres = cprev

C12_Witness ==
    /\ ckind = "resuffixed"
    /\ Len(cplain) = BlockSize + 1
    /\ EndsOutsidePadRange
    /\ cprev = Ok(cplain)
    /\ cres = Ok(cplain)

----------------------------------------------------------------------------
(* Properties of the Device client, checked under Spec and SpecConcurrent *)

RECURSIVE Plus(_, _)
\* the 32-bit counter n steps after v
Plus(v, n) == IF n = 0 THEN v ELSE Increment(Plus(v, n - 1))

\* "0000000A" and "0000000B"
Text0000000A == <<48, 48, 48, 48, 48, 48, 48, 65>>
Text0000000B == <<48, 48, 48, 48, 48, 48, 48, 66>>

\* C1: after N Set calls on one Device have returned, whether they
\* succeeded, failed in transport before any response, or got a bad
\* acknowledgement, the session counter is the handshake value plus N.
C1_SessionPlusCalls ==
    newRet = "device" => id = Plus(base, nReturned)

\* C2: in a series of Set calls made one after the other, no two control
\* frames are encoded under the same session value, also when an earlier
\* Set returned an error.
C2_NoSessionReuse ==
    \A i \in 1..Len(built) : \A j \in 1..Len(built) :
        i < j => built[i].prefix # built[j].prefix

\* C3: with Set called from several goroutines, in every interleaving no two
\* calls encode their frame under the same session value, and the counter
\* is its starting value plus the number of calls that reached the
\* increment.
C3_SetIsCriticalSection ==
    newRet = "device" =>
        /\ id = Plus(base, nIncrements)
        /\ \A i \in 1..Len(built) : \A j \in 1..Len(built) :
               (i # j /\ built[i].caller # built[j].caller)
                   => built[i].prefix # built[j].prefix

\* C4: New posts the 8-character hex form of a newly made session to
\* /sys/dev/sync, reads the response as the appliance's counter and sets
\* the Device's session to that counter plus one ("0000000A" gives
\* "0000000B"); there is no Device, and no session, before that.
C4_SyncHandshake ==
    /\ newRet = "device" =>
           /\ syncOutcome = "response"
           /\ Len(syncReq) = 8
           /\ ParseID(syncReq) = sess0
           /\ base = Increment(ParseID(syncRsp))
           /\ (syncRsp = Text0000000A => Hex(base) = Text0000000B)
           /\ (nCalls = 0 => id = base)
    /\ newRet # "device" => id = NoSession

C4_Witness ==
    /\ newRet = "device"
    /\ nCalls = 0
    /\ syncRsp = Text0000000A
    /\ Hex(id) = Text0000000B

\* a sync response that is no hex counter: empty, or holding a character
\* that is no hex digit
NotAHexCounter(payload) ==
    \/ Len(payload) = 0
    \/ \E i \in 1..Len(payload) : HexVal(payload[i]) < 0

\* C5, as claimed: New returns an error and no Device whenever the response
\* to the sync post is no hex counter.
C5_BadSyncResponseFails ==
    (syncOutcome = "response" /\ NotAHexCounter(syncRsp)) => newRet = "err"

\* C5, amended: New returns an error and no Device exactly when the dial
\* or the sync post fails; every response is accepted, and one that is empty
\* or has a non-hex character among its first 8 is read as counter zero, so
\* that the Device is returned with session 00000001.
C5_BadSyncResponseIsZero ==
    /\ newRet = "err" <=> syncOutcome \in {"dialerr", "posterr"}
    /\ syncOutcome = "response" =>
           /\ newRet = "device"
           /\ NotAHexCounter(Take(syncRsp, 8)) => base = <<0, 1>>
           /\ (nCalls = 0 => id = base)

C5_Witness ==
    /\ newRet = "device"
    /\ nCalls = 0
    /\ syncRsp = <<122, 122>>
    /\ id = <<0, 1>>

\* C15: Set returns nil exactly when the control post came back with a
\* response whose payload json.Unmarshal reads, without error, as an object
\* whose "status" is "success"; a post that fails, a payload that does not
\* parse, a missing "status" and any other status make Set return an error.
C15_SetSuccessIffAcknowledged ==
    \A c \in Callers :
        (sret[c] # "none" /\ spc[c] = "idle") =>
            /\ sret[c] \in {"nil", "err"}
            /\ sret[c] = "nil" <=>
                   /\ sresp[c] # NoResponse
                   /\ sresp[c].json
                   /\ sresp[c].strings
                   /\ sresp[c].status = "success"

C15_Witness ==
    /\ sret[1] = "nil"
    /\ sresp[1] # NoResponse
    /\ sresp[1].status = "success"
    /\ nReturned = 2

Text0000000C == <<48, 48, 48, 48, 48, 48, 48, 67>>

\* C18: the frame a Set builds begins with the 8 upper-case hex characters
\* of the session current when the call starts; after a handshake that
\* returned 0000000A the first Set builds a frame that begins 0000000B, and
\* when that call got a response the session is 0000000C after it, whatever
\* the response holds.
C18_SetPostsUnderCurrentSession ==
    [][Len(built') = Len(built) + 1 =>
          /\ built'[Len(built')].prefix = Hex(id)
          /\ (syncRsp = Text0000000A /\ nCalls = 0) =>
                 /\ built'[1].prefix = Text0000000B
                 /\ sresp'[1] # NoResponse => Hex(id') = Text0000000C]_vars

C18_Witness ==
    /\ syncRsp = Text0000000A
    /\ nCalls = 1
    /\ built[1].prefix = Text0000000B
    /\ sresp[1] # NoResponse
    /\ sresp[1].status = "failed"
    /\ Hex(id) = Text0000000C

----------------------------------------------------------------------------
(* Properties of ParseID, checked under SpecParse *)

RECURSIVE NumberOf(_)
\* the number that up to four hex digits write
NumberOf(digits) ==
    IF Len(digits) = 0 THEN 0
    ELSE (16 * NumberOf(SubSeq(digits, 1, Len(digits) - 1)))
         + HexVal(digits[Len(digits)])

\* C17: ParseID looks at the first 8 bytes of its input only; when these
\* are all hex digits it returns the 32-bit number they write, and for the
\* empty input and for a byte that is no hex digit among them it returns
\* zero; it returns a value for every input.
C17_ParseIDLenient ==
    pid # NoSession =>
        LET first == Take(pdata, 8)
            n     == Len(first)
        IN  /\ pid = ParseID(first)
            /\ (n = 0 \/ \E i \in 1..n : HexVal(first[i]) < 0)
                   => pid = <<0, 0>>
            /\ (n > 0 /\ \A i \in 1..n : HexVal(first[i]) >= 0)
                   => /\ pid[2] = NumberOf(SubSeq(first,
                                     IF n > 4 THEN n - 3 ELSE 1, n))
                      /\ pid[1] = NumberOf(SubSeq(first, 1,
                                     IF n > 4 THEN n - 4 ELSE 0))

C17_Witness ==
    /\ Len(pdata) = 10
    /\ pdata[9] = 71
    /\ pdata[1] = 55
    /\ pdata[10] = 48
    /\ pid = <<30583, 30583>>

----------------------------------------------------------------------------
(* Properties of the readers, checked under SpecObserve and SpecConnected *)

\* the two pushes the state remembers
Pushes == {p \in {oprev, opush} : p # NoPush}

\* where in a trace the event stands, 0 if it does not
RECURSIVE IndexOf(_, _, _)
IndexOf(trace, event, n) ==
    IF n = 0 THEN 0
    ELSE IF IndexOf(trace, event, n - 1) # 0 THEN IndexOf(trace, event, n - 1)
    ELSE IF trace[n] = event THEN n
    ELSE 0

Position(trace, event) == IndexOf(trace, event, Len(trace))

\* the callback passed on a decoded status report
Delivered(p) == Position(p.trace, "deliver") # 0

\* the callback logged a failure of DecodeMessage or json.Unmarshal and
\* returned
Reported(p) == p.trace[Len(p.trace)] = "log" /\ ~Delivered(p)

\* the frames that are spoilt
Corrupted == PushKinds \ {"valid"}

\* C13: for every pushed frame that is confirmable the callback writes the
\* acknowledgement first and calls DecodeMessage after it, whether or not
\* DecodeMessage or json.Unmarshal then fails on that frame; nothing is
\* written for a frame that is not confirmable.
C13_AckBeforeDecode ==
    \A p \in Pushes :
        /\ Position(p.trace, "DecodeMessage") # 0
        /\ p.confirmable =>
               /\ Position(p.trace, "WriteMsg") = 1
               /\ Position(p.trace, "WriteMsg")
                      < Position(p.trace, "DecodeMessage")
        /\ ~p.confirmable => Position(p.trace, "WriteMsg") = 0

C13_Witness ==
    /\ opush.kind = "badjson"
    /\ opush.confirmable
    /\ opush.trace = <<"WriteMsg", "DecodeMessage", "Unmarshal", "log">>
    /\ oprev.kind = "nonhex"
    /\ oprev.confirmable
    /\ oprev.trace = <<"WriteMsg", "DecodeMessage", "log">>

\* C14: a spoilt frame (not hex, too short, a ciphertext that is no whole
\* number of blocks, or no JSON inside) is reported by the callback and
\* neither ends the observation nor the process, and of a spoilt frame
\* followed by a valid one exactly the valid one is delivered.
C14_MalformedFrameResilience ==
    /\ \A p \in Pushes :
           p.kind \in Corrupted =>
               /\ alive
               /\ obs = "observing"
               /\ Reported(p)
    /\ (oprev.kind \in Corrupted /\ opush.kind = "valid") =>
           /\ Delivered(opush)
           /\ ~Delivered(oprev)

\* C16: Status, called on a Device for which no sync handshake has been
\* completed, returns an error and starts no observation.
C16_StatusRequiresSynced ==
    [][(obs' # obs /\ syncOutcome # "response") => obs' = "err"]_vars

\* C19: a pushed frame decodes to the same result whatever the session
\* counter of the Device is when it arrives: the key comes from the prefix
\* of the frame alone.
C19_DecodeUnderFramePrefix ==
    (oprev # NoPush /\ opush # NoPush /\ oprev.kind = opush.kind)
        => opush.resp = oprev.resp

C19_Witness ==
    /\ oprev.kind = "valid"
    /\ opush.kind = "valid"
    /\ oprev.session = PushSession
    /\ opush.session = Increment(Increment(PushSession))
    /\ oprev.resp = Ok(StatusText)
    /\ opush.resp = Ok(StatusText)

\* C20: Info, Status and the callback's decoding of pushed frames leave the
\* session counter of the Device as it is; once New has set it, it changes
\* only in Set, at the increment, by one.
C20_ReadsKeepSession ==
    [][/\ (iret' # iret \/ obs' # obs \/ opush' # opush \/ oprev' # oprev)
           => id' = id
       /\ (id' # id /\ id # NoSession)
           => /\ nIncrements' = nIncrements + 1
              /\ nCalls' = nCalls + 1
              /\ id' = Increment(id)]_vars

C20_Witness ==
    /\ iret = "info"
    /\ obs = "observing"
    /\ oprev # NoPush
    /\ opush.kind = "valid"
    /\ Delivered(opush)
    /\ nIncrements = 1
    /\ id = Increment(base)


\* what sess.Decrypt returned inside the last DecodeMessage
DecryptedOfFrame == Decrypt(ParseID(cframe), FrameCipher).out

\* C25: the strip loop of DecodeMessage ends after at most one round per
\* decrypted byte; what it returns is a prefix of the decrypted bytes that
\* is empty or ends in a byte outside 1..16, every byte it dropped being in
\* 1..16; when all decrypted bytes are in 1..16 the result is the empty
\* plaintext, without error
C25_StripLoop ==
    (Decoded /\ cres.status = "ok") =>
        LET d == DecryptedOfFrame
            r == cres.out
        IN  /\ Len(r) <= Len(d)
            /\ r = SubSeq(d, 1, Len(r))
            /\ (r = <<>> \/ r[Len(r)] \notin 1..16)
            /\ \A i \in (Len(r) + 1)..Len(d) : d[i] \in 1..16
            /\ ((\A i \in 1..Len(d) : d[i] \in 1..16) => r = <<>>)

\* the one-byte plaintext 0x01 was encoded: its block is 0x01 and fifteen
\* 0x0F, all in 1..16, and DecodeMessage returned the empty plaintext
C25_Witness ==
    /\ ckind = "encoded"
    /\ cplain = <<1>>
    /\ Len(DecryptedOfFrame) = BlockSize
    /\ \A i \in 1..BlockSize : DecryptedOfFrame[i] \in 1..16
    /\ cres = Ok(<<>>)

\* "FFFFFFFF" and "00000000"
TextFFFFFFFF == <<70, 70, 70, 70, 70, 70, 70, 70>>
Text00000000 == <<48, 48, 48, 48, 48, 48, 48, 48>>

\* the digits 0-9 and A-F
UpperHexDigits == (48..57) \cup (65..70)

\* C24: a session is a 32-bit unsigned counter that wraps around: the
\* handshake response FFFFFFFF gives the local session 00000000, FFFFFFFF
\* incremented is 0, every other value incremented is the next one, and Hex
\* writes every id as exactly 8 upper-case hex digits that ParseID reads
\* back as the same id
C24_SessionWrapsAndRoundTrips ==
    /\ pid # NoSession => (pid[1] \in 0..65535 /\ pid[2] \in 0..65535)
    /\ phex # <<>> =>
           /\ Len(phex) = 8
           /\ \A i \in 1..8 : phex[i] \in UpperHexDigits
           /\ ParseID(phex) = pid
    /\ pnext # NoSession =>
           /\ pnext[1] \in 0..65535
           /\ pnext[2] \in 0..65535
           /\ (pid = <<65535, 65535>> => pnext = <<0, 0>>)
           /\ (pid[2] < 65535 => pnext = <<pid[1], pid[2] + 1>>)
           /\ ((pid[2] = 65535 /\ pid[1] < 65535) => pnext = <<pid[1] + 1, 0>>)
           /\ (pdata = TextFFFFFFFF => Hex(pnext) = Text00000000)

\* the response FFFFFFFF has been parsed, written back by Hex and
\* incremented to zero
C24_Witness ==
    /\ pdata = TextFFFFFFFF
    /\ phex = TextFFFFFFFF
    /\ pnext = <<0, 0>>

----------------------------------------------------------------------------
(* AirQuality.ToHemtjanst *)

MaxIaql == 60

\* the values of "iaql" a status report may carry: AirQuality is an int
AirQualities == (0 - MaxIaql) .. MaxIaql

AirQualityToHemtjanstDefaultOne(a) ==
    IF a = 1 THEN "1"
    ELSE IF a \in {2, 3} THEN "2"
    ELSE IF a \in {4, 5, 6} THEN "3"
    ELSE IF a \in {7, 8, 9} THEN "4"
    ELSE IF a \in {10, 11, 12} THEN "5"
    ELSE "1"
\* func (a AirQuality) ToHemtjanst() string: the switch, case by case
AirQualityToHemtjanst(a) ==
    IF a = 1 THEN "1"
    ELSE IF a \in {2, 3} THEN "2"
    ELSE IF a \in {4, 5, 6} THEN "3"
    ELSE IF a \in {7, 8, 9} THEN "4"
    ELSE IF a \in {10, 11, 12} THEN "5"
    ELSE "5"

InitAirQuality ==
    /\ DeviceIdle
    /\ CodecIdle
    /\ ParseIdle
    /\ ObserveIdle
    /\ CommandIdle
    /\ sent = NoRequests
    /\ iaql \in AirQualities
    /\ level = ""

CallToHemtjanst ==
    /\ level = ""
    /\ level' = AirQualityToHemtjanst(iaql)
    /\ UNCHANGED <<iaql, idLock, exec, ctxDone, cancels>>
    /\ UNCHANGED sent
    /\ UNCHANGED deviceVars
    /\ UNCHANGED codecVars
    /\ UNCHANGED parseVars
    /\ UNCHANGED obsVars

NextAirQuality == CallToHemtjanst

SpecAirQuality == InitAirQuality /\ [][NextAirQuality]_vars

\* the number a HomeKit level stands for
LevelNumber(l) ==
    CASE l = "1" -> 1 [] l = "2" -> 2 [] l = "3" -> 3 [] l = "4" -> 4
      [] l = "5" -> 5 [] OTHER -> 0

\* C22: ToHemtjanst maps 1 to "1", 2..3 to "2", 4..6 to "3", 7..9 to "4" and
\* 10..12 to "5"; it is defined for every value and does not decrease over
\* 1..12; every value outside 1..12, zero and the negatives included, gives
\* "5"
C22_AirQualityMapping ==
    level # "" =>
        /\ level \in {"1", "2", "3", "4", "5"}
        /\ (iaql = 1 => level = "1")
        /\ (iaql \in 2..3 => level = "2")
        /\ (iaql \in 4..6 => level = "3")
        /\ (iaql \in 7..9 => level = "4")
        /\ (iaql \in 10..12 => level = "5")
        /\ (iaql \notin 1..12 => level = "5")
        /\ (iaql \in 1..12 =>
               \A b \in 1..iaql :
                   LevelNumber(AirQualityToHemtjanst(b)) <= LevelNumber(level))

\* zero, outside the reported range, has been converted to the worst level
C22_Witness == iaql = 0 /\ level = "5"

----------------------------------------------------------------------------
(* Requests per call *)

\* C21: no call retries: the handshake of New, Info, Set and Status each
\* make at most one request on their endpoint, and a call whose request
\* failed has made exactly that one request and returned the error
C21_NoRetry ==
    /\ \A e \in DOMAIN sent : sent[e] <= 1
    /\ (syncOutcome = "posterr" => (sent.sync = 1 /\ newRet = "err"))
    /\ (syncOutcome = "response" => sent.sync = 1)
    /\ (iret # "none" => sent.info = 1)
    /\ (obs # "none" => sent.status = 1)
    /\ (nCalls > 0 => sent.control = 1)
    /\ ((nCalls > 0 /\ sresp[1] = NoResponse) => sret[1] = "err")

\* a Set whose post failed, an Info and a Status that failed, each after
\* one request
C21_Witness ==
    /\ nCalls > 0
    /\ sresp[1] = NoResponse
    /\ sret[1] = "err"
    /\ iret = "err"
    /\ obs = "err"
    /\ sent = [sync |-> 1, info |-> 1, control |-> 1, status |-> 1]


----------------------------------------------------------------------------
(* The standalone publisher, run of main.go: device info, the handshake,   *)
(* the observation, and the "on" handler that posts to /sys/dev/control    *)
(* under idLock.  myId is id, and run's return value is exec.              *)

\* getWithTimeout(ctx, cl, "/sys/dev/info") and json.Unmarshal into Info
RunInfo(getOK, jsonOK) ==
    /\ exec = "none"
    /\ iret = "none"
    /\ iret' = IF getOK /\ jsonOK THEN "info" ELSE "err"
    /\ exec' = IF getOK /\ jsonOK THEN "none" ELSE "err"
    /\ sent' = [sent EXCEPT !.info = RequestsSent(getOK)]
    /\ UNCHANGED <<obs, alive, opush, oprev>>
    /\ UNCHANGED <<iaql, level, idLock, ctxDone, cancels>>
    /\ UNCHANGED deviceVars
    /\ UNCHANGED codecVars
    /\ UNCHANGED parseVars

\* client.NewDevice, then the post of a new session to /sys/dev/sync;
\* myId := philips.ParseID(rsp.Payload()) + 1
RunSync(devOK, sess, postOK, payload) ==
    /\ exec = "none"
    /\ iret = "info"
    /\ syncOutcome = "none"
    /\ IF ~devOK
       THEN /\ exec' = "err"
            /\ UNCHANGED <<sess0, syncReq, syncRsp, syncOutcome, id, base,
                           sent>>
       ELSE /\ sess0' = sess
            /\ syncReq' = Hex(sess)
            /\ sent' = [sent EXCEPT !.sync = RequestsSent(postOK)]
            /\ IF ~postOK
               THEN /\ syncOutcome' = "posterr"
                    /\ exec' = "err"
                    /\ UNCHANGED <<syncRsp, id, base>>
               ELSE /\ syncOutcome' = "response"
                    /\ syncRsp' = payload
                    /\ id' = SessionFromSync(payload)
                    /\ base' = id'
                    /\ UNCHANGED exec
    /\ UNCHANGED newRet
    /\ UNCHANGED setVars
    /\ UNCHANGED <<iaql, level, idLock, ctxDone, cancels>>
    /\ UNCHANGED codecVars
    /\ UNCHANGED parseVars
    /\ UNCHANGED obsVars

\* cl.ObserveWithContext(ctx, "/sys/dev/status", handleObserve(dev)); the
\* "on" handler is registered once it has succeeded
RunObserve(obsOK) ==
    /\ exec = "none"
    /\ syncOutcome = "response"
    /\ obs = "none"
    /\ obs' = IF obsOK THEN "observing" ELSE "err"
    /\ exec' = IF obsOK THEN "none" ELSE "err"
    /\ sent' = [sent EXCEPT !.status = RequestsSent(obsOK)]
    /\ UNCHANGED <<iret, alive, opush, oprev>>
    /\ UNCHANGED <<iaql, level, idLock, ctxDone, cancels>>
    /\ UNCHANGED deviceVars
    /\ UNCHANGED codecVars
    /\ UNCHANGED parseVars

\* what the handler may be called with: "1", "0" and "x"
OnSetValues == {49, 48, 120}

\* if v != "1" { v = "0" }
NormalisePower(v) == IF v # 49 THEN 48 ELSE v

\* the handler is invoked and reaches idLock.Lock()
OnSetEnter(c) ==
    /\ exec = "none"
    /\ obs = "observing"
    /\ nCalls < MaxSets
    /\ spc[c] = "idle"
    /\ spc' = [spc EXCEPT ![c] = "waiting"]
    /\ nCalls' = nCalls + 1
    /\ UNCHANGED <<id, sret, sresp, built, nReturned, nIncrements>>
    /\ UNCHANGED newVars
    /\ UNCHANGED codecVars
    /\ UNCHANGED parseVars
    /\ UNCHANGED sent
    /\ UNCHANGED extraVars
    /\ UNCHANGED obsVars

OnSetLockWithoutWaiting(c) ==
    /\ spc[c] = "waiting"
    /\ idLock' = c
    /\ spc' = [spc EXCEPT ![c] = "locked"]
    /\ UNCHANGED <<id, sret, sresp, built, nCalls, nReturned, nIncrements>>
    /\ UNCHANGED <<iaql, level, exec, ctxDone, cancels>>
    /\ UNCHANGED newVars
    /\ UNCHANGED codecVars
    /\ UNCHANGED parseVars
    /\ UNCHANGED sent
    /\ UNCHANGED obsVars
\* idLock.Lock() returns: nobody else holds the lock
OnSetLock(c) ==
    /\ spc[c] = "waiting"
    /\ idLock = 0
    /\ idLock' = c
    /\ spc' = [spc EXCEPT ![c] = "locked"]
    /\ UNCHANGED <<id, sret, sresp, built, nCalls, nReturned, nIncrements>>
    /\ UNCHANGED <<iaql, level, exec, ctxDone, cancels>>
    /\ UNCHANGED newVars
    /\ UNCHANGED codecVars
    /\ UNCHANGED parseVars
    /\ UNCHANGED sent
    /\ UNCHANGED obsVars

\* philips.EncodeMessage(myId, []byte(data)); on an error the handler
\* returns, and the deferred Unlock runs
OnSetEncode(c, v) ==
    /\ spc[c] = "locked"
    /\ LET newMsg == EncodeMessage(id, MarshalDesired(NormalisePower(v)))
       IN  IF newMsg.status # "ok"
           THEN /\ spc' = [spc EXCEPT ![c] = "idle"]
                /\ nReturned' = nReturned + 1
                /\ idLock' = 0
                /\ UNCHANGED built
           ELSE /\ built' = Append(built, FrameRecord(c, newMsg.out))
                /\ spc' = [spc EXCEPT ![c] = "encoded"]
                /\ UNCHANGED <<nReturned, idLock>>
    /\ sresp' = [sresp EXCEPT ![c] = NoResponse]
    /\ UNCHANGED <<id, sret, nCalls, nIncrements>>
    /\ UNCHANGED <<iaql, level, exec, ctxDone, cancels>>
    /\ UNCHANGED newVars
    /\ UNCHANGED codecVars
    /\ UNCHANGED parseVars
    /\ UNCHANGED sent
    /\ UNCHANGED obsVars

\* myId++
OnSetIncrement(c) ==
    /\ spc[c] = "encoded"
    /\ id' = Increment(id)
    /\ nIncrements' = nIncrements + 1
    /\ spc' = [spc EXCEPT ![c] = "incremented"]
    /\ UNCHANGED <<sret, sresp, built, nCalls, nReturned>>
    /\ UNCHANGED newVars
    /\ UNCHANGED codecVars
    /\ UNCHANGED parseVars
    /\ UNCHANGED sent
    /\ UNCHANGED extraVars
    /\ UNCHANGED obsVars

\* _, _ = cl.Post("/sys/dev/control", ..): the response and the error are
\* dropped; the handler returns and the deferred Unlock runs
OnSetPost(c, postOK, ack) ==
    /\ spc[c] = "incremented"
    /\ sent' = [sent EXCEPT !.control = RequestsSent(postOK)]
    /\ sresp' = [sresp EXCEPT ![c] = IF postOK THEN ack ELSE NoResponse]
    /\ spc' = [spc EXCEPT ![c] = "idle"]
    /\ nReturned' = nReturned + 1
    /\ idLock' = 0
    /\ UNCHANGED <<id, sret, built, nCalls, nIncrements>>
    /\ UNCHANGED <<iaql, level, exec, ctxDone, cancels>>
    /\ UNCHANGED newVars
    /\ UNCHANGED codecVars
    /\ UNCHANGED parseVars
    /\ UNCHANGED obsVars

\* the context of run is cancelled
RunContextDone ==
    /\ exec = "none"
    /\ ~ctxDone
    /\ ctxDone' = TRUE
    /\ UNCHANGED <<iaql, level, idLock, exec, cancels>>
    /\ UNCHANGED sent
    /\ UNCHANGED deviceVars
    /\ UNCHANGED codecVars
    /\ UNCHANGED parseVars
    /\ UNCHANGED obsVars

\* <-ctx.Done(); obs.Cancel(); return nil
RunCancel ==
    /\ exec = "none"
    /\ obs = "observing"
    /\ ctxDone
    /\ cancels' = cancels + 1
    /\ obs' = "cancelled"
    /\ exec' = "nil"
    /\ UNCHANGED <<iret, alive, opush, oprev>>
    /\ UNCHANGED <<iaql, level, idLock, ctxDone>>
    /\ UNCHANGED sent
    /\ UNCHANGED deviceVars
    /\ UNCHANGED codecVars
    /\ UNCHANGED parseVars

NextPublisher ==
    \/ \E getOK \in BOOLEAN, jsonOK \in BOOLEAN : RunInfo(getOK, jsonOK)
    \/ \E devOK \in BOOLEAN, sess \in NewSessions, postOK \in BOOLEAN,
          payload \in SyncResponses :
           RunSync(devOK, sess, postOK, payload)
    \/ \E obsOK \in BOOLEAN : RunObserve(obsOK)
    \/ \E c \in Callers : OnSetEnter(c)
    \/ \E c \in Callers : OnSetLock(c)
    \/ \E c \in Callers, v \in OnSetValues : OnSetEncode(c, v)
    \/ \E c \in Callers : OnSetIncrement(c)
    \/ \E c \in Callers, postOK \in BOOLEAN, ack \in ObserveAcknowledgements :
           OnSetPost(c, postOK, ack)
    \/ RunContextDone
    \/ RunCancel

SpecPublisher == Init /\ [][NextPublisher]_vars

\* the handlers between Lock and the deferred Unlock
InsideLock == {c \in Callers : spc[c] \in {"locked", "encoded", "incremented"}}

\* C26: in the publisher every "on" handler runs encode, increment and post
\* under idLock, however the invocations interleave: at most one handler is
\* past Lock; no two control frames carry the same session value; the
\* counter is incremented before the frame is posted, and it stays
\* incremented whether the post succeeds or fails; the counter is always the
\* handshake's value plus the number of frames encoded and counted, which
\* once all handlers have returned is the number of invocations whose
\* encoding succeeded
C26_HandlerUnderLock ==
    /\ Cardinality(InsideLock) <= 1
    /\ \A c \in InsideLock : idLock = c
    /\ \A i \in 1..Len(built) : \A j \in 1..Len(built) :
           i # j => built[i].prefix # built[j].prefix
    /\ syncOutcome = "response" =>
           /\ id = Plus(base, nIncrements)
           /\ nIncrements = Len(built)
                               - Cardinality({c \in Callers : spc[c] = "encoded"})
    /\ \A c \in Callers :
           spc[c] = "incremented" =>
               /\ built[Len(built)].caller = c
               /\ id = Plus(ParseID(built[Len(built)].prefix), 1)
    /\ (\A c \in Callers : spc[c] = "idle") =>
           /\ nReturned = nCalls
           /\ Len(built) = nCalls
           /\ (syncOutcome = "response" => id = Plus(base, Len(built)))

\* the first handler's post failed and it returned; the second holds the
\* lock, has encoded under the next session value and incremented, and is
\* about to post, while a third invocation waits for the lock
C26_Witness ==
    /\ nCalls = 3
    /\ nReturned = 1
    /\ spc[2] = "incremented"
    /\ spc[1] = "waiting"
    /\ idLock = 2
    /\ Len(built) = 2
    /\ built[1].caller = 1
    /\ built[1].prefix # built[2].prefix
    /\ sresp[1] = NoResponse
    /\ id = Plus(base, 2)


----------------------------------------------------------------------------
(* The publish command, publishConfig.Exec: philips.New, Info, the MQTT    *)
(* device, Session, Status, and the wait for the context, on the Device    *)
(* of device.go:13-95; exec is what Exec returned                          *)

\* Exec is at philips.New
ExecMayConnect == exec = "none" /\ newRet = "none"

\* Exec is at cl.Info()
ExecMayInfo == exec = "none" /\ newRet = "device" /\ iret = "none"

\* Exec is past cl.Info(), at client.NewDevice and cl.Session()
ExecMaySync == exec = "none" /\ iret = "info" /\ syncOutcome = "none"

ExecMayObserveUnsynced == exec = "none" /\ iret = "info" /\ obs = "none"
\* Exec is past cl.Session(), at cl.Status(handleObserve(dev))
ExecMayObserve == exec = "none" /\ syncOutcome = "response" /\ obs = "none"

\* if err != nil { return err } after New, Info, Session and Status
ExecReturnsError ==
    /\ exec = "none"
    /\ \/ newRet = "err"
       \/ iret = "err"
       \/ syncOutcome = "posterr"
       \/ obs = "err"
    /\ exec' = "err"
    /\ UNCHANGED <<iaql, level, idLock, ctxDone, cancels>>
    /\ UNCHANGED sent
    /\ UNCHANGED deviceVars
    /\ UNCHANGED codecVars
    /\ UNCHANGED parseVars
    /\ UNCHANGED obsVars

\* client.NewDevice returns an error and Exec returns it
ExecNewDeviceFails ==
    /\ ExecMaySync
    /\ exec' = "err"
    /\ UNCHANGED <<iaql, level, idLock, ctxDone, cancels>>
    /\ UNCHANGED sent
    /\ UNCHANGED deviceVars
    /\ UNCHANGED codecVars
    /\ UNCHANGED parseVars
    /\ UNCHANGED obsVars

NextPublish ==
    \/ /\ alive
       /\ ExecMayConnect
       /\ \E dialOK \in BOOLEAN : NewConnected(dialOK)
    \/ /\ alive
       /\ ExecMayInfo
       /\ \E getOK \in BOOLEAN, jsonOK \in BOOLEAN : Info(getOK, jsonOK)
    \/ /\ alive
       /\ ExecNewDeviceFails
    \/ /\ alive
       /\ ExecMaySync
       /\ \E sess \in NewSessions, postOK \in BOOLEAN,
             payload \in SyncResponses :
              Session(sess, postOK, payload)
    \/ /\ alive
       /\ ExecMayObserve
       /\ \E obsOK \in BOOLEAN : Status(obsOK)
    \/ /\ alive
       /\ ExecReturnsError
    \/ /\ alive
       /\ exec = "none"
       /\ \E kind \in PushKinds, confirmable \in BOOLEAN,
             writeOK \in BOOLEAN :
              ObservePush(kind, confirmable, writeOK)
    \/ /\ alive
       /\ RunContextDone
    \/ /\ alive
       /\ RunCancel

SpecPublish == Init /\ [][NextPublish]_vars

\* C27: the publish command asks for the observation of /sys/dev/status
\* only after the handshake got its response, which needs the device info
\* and the connection before it; when the connection, the info or the
\* handshake fails no observation is started and the command does not
\* return success; a command that returned an error has cancelled nothing;
\* the observation is cancelled at most once, only after the context is
\* cancelled, and the command returns nil exactly when it has cancelled it
C27_ObserveAfterHandshake ==
    /\ obs # "none" =>
           (newRet = "device" /\ iret = "info" /\ syncOutcome = "response")
    /\ (newRet = "err" \/ iret = "err" \/ syncOutcome = "posterr") =>
           (obs = "none" /\ exec # "nil" /\ cancels = 0)
    /\ exec = "err" => (obs \in {"none", "err"} /\ cancels = 0)
    /\ cancels <= 1
    /\ (cancels = 1 <=> obs = "cancelled")
    /\ (cancels = 1 => ctxDone)
    /\ (exec = "nil" <=> cancels = 1)

\* the handshake was answered, the observation delivered a report, the
\* context was cancelled and the command cancelled the observation, once
C27_Witness ==
    /\ syncOutcome = "response"
    /\ opush.kind = "valid"
    /\ ctxDone
    /\ obs = "cancelled"
    /\ cancels = 1
    /\ exec = "nil"

====
